---- MODULE Spec2Model ----
(***************************************************************************)
(* Model of verbos/convert_present_subjunctive.py: the conversion of       *)
(* present-indicative verb records into present-subjunctive records.       *)
(*                                                                         *)
(* A Python str is a sequence of one-character strings, so that strip,     *)
(* lower, endswith, rfind, slicing and concatenation are computed as the   *)
(* script computes them.  Tense labels, class names and skip reasons are   *)
(* only ever compared for equality and stay atomic strings.  A record      *)
(* keeps the four keys the conversion reads (infinitivo, tiempo,           *)
(* persona_base, forma); the keys that deepcopy passes through or that     *)
(* only get the translation prefix are left out.                           *)
(***************************************************************************)
EXTENDS Integers, Sequences, FiniteSets, TLC

VARIABLES data, source_rows, by_inf, output, skipped,
          pc, g, k, cls, yo_stem, base_stem, run, first

vars == <<data, source_rows, by_inf, output, skipped,
          pc, g, k, cls, yo_stem, base_stem, run, first>>

\* Longest input list explored.
MaxLen == 3

(***************************************************************************)
(* str methods                                                             *)
(***************************************************************************)
Whitespace == {" ", "\t", "\n"}

UpperChars == <<"A","B","C","D","E","F","G","H","I","J","K","L","M","N","O","P","Q",
                "R","S","T","U","V","W","X","Y","Z","Á","É","Í","Ó","Ú","Ü","Ñ">>
LowerChars == <<"a","b","c","d","e","f","g","h","i","j","k","l","m","n","o","p","q",
                "r","s","t","u","v","w","x","y","z","á","é","í","ó","ú","ü","ñ">>

LowerChar(c) ==
    IF \E i \in DOMAIN UpperChars : UpperChars[i] = c
    THEN LowerChars[CHOOSE i \in DOMAIN UpperChars : UpperChars[i] = c]
    ELSE c

\* s.lower()
Lower(s) == [i \in 1..Len(s) |-> LowerChar(s[i])]

\* s.strip()
Strip(s) ==
    LET keep == {i \in 1..Len(s) : s[i] \notin Whitespace}
    IN  IF keep = {} THEN <<>>
        ELSE SubSeq(s, CHOOSE i \in keep : \A j \in keep : i <= j,
                       CHOOSE i \in keep : \A j \in keep : j <= i)

\* s.endswith(suffix)
EndsWith(s, suffix) ==
    /\ Len(s) >= Len(suffix)
    /\ SubSeq(s, Len(s) - Len(suffix) + 1, Len(s)) = suffix

\* sub in s
Contains(s, sub) ==
    \E i \in 1..(Len(s) - Len(sub) + 1) : SubSeq(s, i, i + Len(sub) - 1) = sub

\* s.rfind(old), 1-based; 0 when absent (Python's -1)
RFind(s, old) ==
    LET at == {i \in 1..(Len(s) - Len(old) + 1) : SubSeq(s, i, i + Len(old) - 1) = old}
    IN  IF at = {} THEN 0 ELSE CHOOSE i \in at : \A j \in at : j <= i

\* s[:-n]
DropLast(s, n) == SubSeq(s, 1, Len(s) - n)

(***************************************************************************)
(* CONFIG                                                                  *)
(***************************************************************************)
SOURCE_TENSE == "presente"
TARGET_TENSE == "subjuntivo presente"

P_yo       == <<"y","o">>
P_tu       == <<"t","ú">>
P_el       == <<"é","l","/","e","l","l","a","/","U","d",".">>
P_nosotros == <<"n","o","s","o","t","r","o","s">>
P_vosotros == <<"v","o","s","o","t","r","o","s">>
P_ellos    == <<"e","l","l","o","s","/","e","l","l","a","s","/","U","d","s",".">>

\* The key order of the persona tables below.
Personas == <<P_yo, P_tu, P_el, P_nosotros, P_vosotros, P_ellos>>

BOOT == {P_yo, P_tu, P_el, P_ellos}

PERSONA_MAP ==
    { <<<<"y","o">>, P_yo>>, <<<<"t","ú">>, P_tu>>, <<<<"t","u">>, P_tu>>,
      <<<<"n","o","s","o","t","r","o","s">>, P_nosotros>>, <<<<"v","o","s","o","t","r","o","s">>, P_vosotros>>,
      <<<<"é","l">>, P_el>>, <<<<"e","l","l","a">>, P_el>>, <<<<"u","s","t","e","d">>, P_el>>,
      <<<<"é","l","/","e","l","l","a","/","u","d",".">>, P_el>>, <<<<"é","l","/","e","l","l","a","/","u","d">>, P_el>>, <<<<"é","l","/","e","l","l","a","/","u","s","t","e","d">>, P_el>>,
      <<<<"é","l","/","e","l","l","a","/","U","d",".">>, P_el>>, <<<<"é","l","/","e","l","l","a","/","U","d">>, P_el>>,
      <<<<"e","l","l","o","s">>, P_ellos>>, <<<<"e","l","l","a","s">>, P_ellos>>, <<<<"u","s","t","e","d","e","s">>, P_ellos>>,
      <<<<"e","l","l","o","s","/","e","l","l","a","s","/","u","d","s",".">>, P_ellos>>, <<<<"e","l","l","o","s","/","e","l","l","a","s","/","u","d","s">>, P_ellos>>,
      <<<<"e","l","l","o","s","/","e","l","l","a","s","/","U","d","s",".">>, P_ellos>>, <<<<"e","l","l","o","s","/","e","l","l","a","s","/","U","d","s">>, P_ellos>> }

\* Each entry: <<infinitive, forms in the order of Personas>>.
IRREGULAR_FULL ==
    { <<<<"s","e","r">>,   <<<<"s","e","a">>, <<"s","e","a","s">>, <<"s","e","a">>, <<"s","e","a","m","o","s">>, <<"s","e","á","i","s">>, <<"s","e","a","n">>>> >>,
      <<<<"i","r">>,    <<<<"v","a","y","a">>, <<"v","a","y","a","s">>, <<"v","a","y","a">>, <<"v","a","y","a","m","o","s">>, <<"v","a","y","á","i","s">>, <<"v","a","y","a","n">>>> >>,
      <<<<"d","a","r">>,   <<<<"d","é">>, <<"d","e","s">>, <<"d","é">>, <<"d","e","m","o","s">>, <<"d","e","i","s">>, <<"d","e","n">>>> >>,
      <<<<"e","s","t","a","r">>, <<<<"e","s","t","é">>, <<"e","s","t","é","s">>, <<"e","s","t","é">>, <<"e","s","t","e","m","o","s">>, <<"e","s","t","é","i","s">>, <<"e","s","t","é","n">>>> >>,
      <<<<"s","a","b","e","r">>, <<<<"s","e","p","a">>, <<"s","e","p","a","s">>, <<"s","e","p","a">>, <<"s","e","p","a","m","o","s">>, <<"s","e","p","á","i","s">>, <<"s","e","p","a","n">>>> >>,
      <<<<"h","a","b","e","r">>, <<<<"h","a","y","a">>, <<"h","a","y","a","s">>, <<"h","a","y","a">>, <<"h","a","y","a","m","o","s">>, <<"h","a","y","á","i","s">>, <<"h","a","y","a","n">>>> >> }

ENDINGS_AR    == <<<<"e">>, <<"e","s">>, <<"e">>, <<"e","m","o","s">>, <<"é","i","s">>, <<"e","n">>>>
ENDINGS_ER_IR == <<<<"a">>, <<"a","s">>, <<"a">>, <<"a","m","o","s">>, <<"á","i","s">>, <<"a","n">>>>

\* table[persona] for a table keyed in the order of Personas
Lookup(table, persona) ==
    table[CHOOSE i \in DOMAIN Personas : Personas[i] = persona]

\* persona in ENDINGS_AR / persona in ENDINGS_ER_IR
HasKey(persona) == \E i \in DOMAIN Personas : Personas[i] = persona

\* inf_l in IRREGULAR_FULL
InIrregular(inf_l) == \E e \in IRREGULAR_FULL : e[1] = inf_l

\* IRREGULAR_FULL[inf_l][persona]
IrregularForm(inf_l, persona) ==
    Lookup((CHOOSE e \in IRREGULAR_FULL : e[1] = inf_l)[2], persona)

(***************************************************************************)
(* HELPERS                                                                 *)
(***************************************************************************)
\* Optional[str]: None is the empty tuple, a string s is <<s>>.
None == <<>>
Some(s) == <<s>>
\* Python truthiness of an Optional[str]: None and "" are false.
Truthy(opt) == opt # None /\ opt[1] # <<>>

norm_persona(p) ==
    LET p0 == Strip(p)
    IN  IF \E e \in PERSONA_MAP : e[1] = p0
        THEN (CHOOSE e \in PERSONA_MAP : e[1] = p0)[2]
        ELSE p0

\* verb_class falling back to "ar" instead of "".
verb_class_default_ar(inf) ==
    LET i == Lower(Strip(inf))
    IN  IF EndsWith(i, <<"e","r">>) THEN "er"
        ELSE IF EndsWith(i, <<"i","r">>) THEN "ir"
        ELSE "ar"

verb_class(inf) ==
    LET i == Lower(Strip(inf))
    IN  IF EndsWith(i, <<"a","r">>) THEN "ar"
        ELSE IF EndsWith(i, <<"e","r">>) THEN "er"
        ELSE IF EndsWith(i, <<"i","r">>) THEN "ir"
        ELSE ""

safe_strip_suffix(s, suffix) ==
    IF EndsWith(s, suffix) THEN DropLast(s, Len(suffix)) ELSE s

\* rows_by_persona: the first row of the group for each normalized persona.
\* 0 stands for a missing key.
FirstRowIndex(rows, p) ==
    LET at == {i \in DOMAIN rows : norm_persona(rows[i].persona_base) = p}
    IN  IF at = {} THEN 0 ELSE CHOOSE i \in at : \A j \in at : i <= j

derive_base_stem_from_present(rows, c) ==
    LET n == FirstRowIndex(rows, P_nosotros)
        form == Strip(rows[n].forma)
    IN  IF n = 0 THEN None
        ELSE IF c = "ar" THEN Some(safe_strip_suffix(form, <<"a","m","o","s">>))
        ELSE IF c = "er" THEN Some(safe_strip_suffix(form, <<"e","m","o","s">>))
        ELSE IF c = "ir" THEN Some(safe_strip_suffix(form, <<"i","m","o","s">>))
        ELSE None

\* yo_stem_from_yo_form without the removal of the final "o".
yo_stem_keep_o(form) == Strip(form)

yo_stem_from_yo_form(form) ==
    LET yo_form == Strip(form)
    IN  IF EndsWith(yo_form, <<"o">>) /\ Len(yo_form) > 1
        THEN DropLast(yo_form, 1)
        ELSE yo_form

\* apply_car_gar_zar without the -car branch.
apply_gar_zar_only(inf, stem, next_vowel) ==
    LET i == Strip(Lower(inf))
    IN  IF next_vowel # "e" THEN stem
        ELSE IF EndsWith(i, <<"g","a","r">>) /\ EndsWith(stem, <<"g">>) THEN DropLast(stem, 1) \o <<"g","u">>
        ELSE IF EndsWith(i, <<"z","a","r">>) /\ EndsWith(stem, <<"z">>) THEN DropLast(stem, 1) \o <<"c">>
        ELSE stem

apply_car_gar_zar(inf, stem, next_vowel) ==
    LET i == Strip(Lower(inf))
    IN  IF next_vowel # "e" THEN stem
        ELSE IF EndsWith(i, <<"c","a","r">>) /\ EndsWith(stem, <<"c">>) THEN DropLast(stem, 1) \o <<"q","u">>
        ELSE IF EndsWith(i, <<"g","a","r">>) /\ EndsWith(stem, <<"g">>) THEN DropLast(stem, 1) \o <<"g","u">>
        ELSE IF EndsWith(i, <<"z","a","r">>) /\ EndsWith(stem, <<"z">>) THEN DropLast(stem, 1) \o <<"c">>
        ELSE stem

last_replace(s, old, new) ==
    LET i == RFind(s, old)
    IN  IF i = 0 THEN s
        ELSE SubSeq(s, 1, i - 1) \o new \o SubSeq(s, i + Len(old), Len(s))

\* detect_ir_nosvos_shift without the third rule (pedir: pido).
detect_shift_diphthong_only(b, y) ==
    IF Contains(b, <<"o">>) /\ Contains(y, <<"u","e">>) THEN "o->u"
    ELSE IF Contains(b, <<"e">>) /\ Contains(y, <<"i","e">>) THEN "e->i"
    ELSE "None"

detect_ir_nosvos_shift(b, y) ==
    IF Contains(b, <<"o">>) /\ Contains(y, <<"u","e">>) THEN "o->u"
    ELSE IF Contains(b, <<"e">>) /\ Contains(y, <<"i","e">>) THEN "e->i"
    ELSE IF Contains(b, <<"e">>) /\ Contains(y, <<"i">>) THEN "e->i"
    ELSE "None"

\* The stem chosen for nosotros/vosotros of an -ir verb (lines 169-176).
ir_nosvos_stem(inf, ystem, bstem) ==
    LET base == IF Truthy(bstem) THEN bstem[1]
                ELSE IF Len(inf) > 2 THEN DropLast(inf, 2) ELSE ystem
        shift == detect_ir_nosvos_shift(base, ystem)
    IN  IF shift = "o->u" THEN last_replace(base, <<"o">>, <<"u">>)
        ELSE IF shift = "e->i" THEN last_replace(base, <<"e">>, <<"i">>)
        ELSE base

\* build_present_subj_form looking the infinitive up without lower().
build_form_case_sensitive(inf, c, persona, ystem, bstem) ==
    LET endings == IF c = "ar" THEN ENDINGS_AR ELSE ENDINGS_ER_IR
        ending == Lookup(endings, persona)
        next_vowel == ending[1]
        stem == IF persona \in BOOT THEN ystem
                ELSE IF c \in {"ar", "er"}
                     THEN (IF Truthy(bstem) THEN bstem[1] ELSE ystem)
                     ELSE ir_nosvos_stem(inf, ystem, bstem)
    IN  IF InIrregular(inf) THEN IrregularForm(inf, persona)
        ELSE apply_car_gar_zar(inf, stem, next_vowel) \o ending

build_present_subj_form(inf, c, persona, ystem, bstem) ==
    LET inf_l == Lower(inf)
        endings == IF c = "ar" THEN ENDINGS_AR ELSE ENDINGS_ER_IR
        ending == Lookup(endings, persona)
        next_vowel == ending[1]
        stem == IF persona \in BOOT THEN ystem
                ELSE IF c \in {"ar", "er"}
                     THEN (IF Truthy(bstem) THEN bstem[1] ELSE ystem)
                     ELSE ir_nosvos_stem(inf, ystem, bstem)
    IN  IF InIrregular(inf_l) THEN IrregularForm(inf_l, persona)
        ELSE apply_car_gar_zar(inf, stem, next_vowel) \o ending

(***************************************************************************)
(* Input records                                                           *)
(***************************************************************************)
Rec(inf, tense, persona, form) ==
    [infinitivo |-> inf, tiempo |-> tense, persona_base |-> persona, forma |-> form]

\* The records an input file is drawn from.
Pool ==
    { Rec(<<"h","a","b","l","a","r">>,  "presente", <<" ","y","o">>,       <<" ","h","a","b","l","o">>),
      Rec(<<"h","a","b","l","a","r">>,  "presente", <<"t","u">>,        <<"h","a","b","l","a","s">>),
      Rec(<<"b","u","s","c","a","r">>,  "presente", <<"y","o">>,        <<"b","u","s","c","o">>),
      Rec(<<"b","u","s","c","a","r">>,  "presente", <<"y","o">>,        <<"o">>),
      Rec(<<"x","y","z","a","r">>,   "presente", <<"y","o">>,        <<"x","y","z","o">>),
      Rec(<<"x","y","z">>,     "presente", <<"y","o">>,        <<"x","y","z","o">>),
      Rec(<<"p","e","d","i","r">>,   "presente", <<"y","o">>,        <<"p","i","d","o">>),
      Rec(<<"p","e","d","i","r">>,   "presente", <<"n","o","s","o","t","r","o","s">>,  <<"p","e","d","i","m","o","s">>),
      Rec(<<"p","e","d","i","r">>,   "presente", <<"e","l","l","o","s">>,     <<"p","i","d","e","n">>),
      Rec(<<"r","e","c","i","b","i","r">>, "presente", <<"y","o">>,        <<"r","e","c","i","b","o">>),
      Rec(<<"r","e","c","i","b","i","r">>, "presente", <<"n","o","s","o","t","r","o","s">>,  <<"r","e","c","i","b","i","m","o","s">>),
      Rec(<<"S","e","r">>,     "presente", <<"v","o","s","o","t","r","o","s">>,  <<"s","o","i","s">>),
      Rec(<<"S","e","r">>,     "presente", <<"Y","o">>,        <<"s","o","y">>),
      Rec(<<"S","e","r">>,     "presente", <<"y","o">>,        <<"s","o","y">>),
      Rec(<<>>,        "presente", <<"y","o">>,        <<"s","o","y">>),
      Rec(<<"p","e","d","i","r">>,   "Presente", <<"y","o">>,        <<"p","i","d","o">>) }

\* json.load: any list of at most MaxLen records of the pool.
Inputs == UNION { [1..n -> Pool] : n \in 0..MaxLen }

\* The filter of line 197 left out.
SourceRowsUnfiltered(d) == d

\* The source-tense records of an input, in order (line 197).
SourceRows(d) ==
    LET IsSource(r) == r.tiempo = SOURCE_TENSE
    IN  SelectSeq(d, IsSource)

\* A second input file that holds the same source-tense records in the same
\* order and differs from d in its other records: d without them.
SecondInputs(d) ==
    LET Same(r) == r.tiempo = "presente"
    IN  {SelectSeq(d, Same)} \ {d}

(***************************************************************************)
(* MAIN                                                                    *)
(***************************************************************************)
\* by_inf.setdefault(inf, []).append(r); dict order is insertion order.
AddToGroup(groups, inf, r) ==
    IF \E i \in DOMAIN groups : groups[i].inf = inf
    THEN [i \in DOMAIN groups |->
            IF groups[i].inf = inf
            THEN [groups[i] EXCEPT !.rows = Append(@, r)]
            ELSE groups[i]]
    ELSE Append(groups, [inf |-> inf, rows |-> <<r>>])

\* Lines 200-205 over the first n rows: a row without infinitive joins no group.
RECURSIVE GroupRows(_, _)
GroupRows(rows, n) ==
    IF n = 0 THEN <<>>
    ELSE IF rows[n].infinitivo = <<>> THEN GroupRows(rows, n - 1)
    ELSE AddToGroup(GroupRows(rows, n - 1), rows[n].infinitivo, rows[n])

\* skipped.append((inf, reason))
SkipEntry(list, inf, reason) == Append(list, <<inf, reason>>)

\* NewRow without line 239: the persona label is copied as it came.
NewRowRawPersona(r, inf, c, ystem, bstem) ==
    [r EXCEPT !.tiempo = TARGET_TENSE,
              !.forma = build_present_subj_form(inf, c, norm_persona(r.persona_base),
                                                ystem, bstem)]

\* Lines 232-246: the converted copy of row r.
NewRow(r, inf, c, ystem, bstem) ==
    LET persona == norm_persona(r.persona_base)
    IN  [r EXCEPT !.persona_base = persona,
                  !.tiempo = TARGET_TENSE,
                  !.forma = build_present_subj_form(inf, c, persona, ystem, bstem)]

\* Line 235 testing the persona against BOOT instead of the endings tables.
UnknownPersonaNotBoot(r) == norm_persona(r.persona_base) \notin BOOT

\* Line 235: the row's persona is a key of neither endings table.
UnknownPersona(r) == ~HasKey(norm_persona(r.persona_base))

\* Line 223 without the exemption of the irregular verbs.
MissingYoNoExemption(inf, rows) == FirstRowIndex(rows, P_yo) = 0

\* Line 223: the group is skipped for want of a yo row.
MissingYo(inf, rows) == FirstRowIndex(rows, P_yo) = 0 /\ ~InIrregular(Lower(inf))

Init ==
    /\ data \in Inputs
    /\ source_rows = <<>>
    /\ by_inf = <<>>
    /\ output = <<>>
    /\ skipped = <<>>
    /\ pc = "start"
    /\ g = 1
    /\ k = 1
    /\ cls = ""
    /\ yo_stem = <<>>
    /\ base_stem = None
    /\ run = 1
    /\ first = <<>>

\* Lines 197-208: the source-tense rows are filtered out of the input and
\* grouped by infinitive; output and skipped start empty.
GroupSourceRows ==
    /\ pc = "start"
    /\ source_rows' = SourceRows(data)
    /\ by_inf' = GroupRows(SourceRows(data), Len(SourceRows(data)))
    /\ output' = <<>>
    /\ skipped' = <<>>
    /\ g' = 1
    /\ pc' = "verbs"
    /\ UNCHANGED <<data, k, cls, yo_stem, base_stem, run, first>>

\* Lines 211-214.
SkipUnknownClass ==
    /\ pc = "verbs"
    /\ g <= Len(by_inf)
    /\ verb_class(by_inf[g].inf) \notin {"ar", "er", "ir"}
    /\ skipped' = SkipEntry(skipped, by_inf[g].inf, "unknown verb class")
    /\ cls' = verb_class(by_inf[g].inf)
    /\ g' = g + 1
    /\ UNCHANGED <<data, source_rows, by_inf, output, pc, k, yo_stem, base_stem, run, first>>

\* Lines 211-225.
SkipMissingYo ==
    /\ pc = "verbs"
    /\ g <= Len(by_inf)
    /\ verb_class(by_inf[g].inf) \in {"ar", "er", "ir"}
    /\ MissingYo(by_inf[g].inf, by_inf[g].rows)
    /\ skipped' = SkipEntry(skipped, by_inf[g].inf, "missing yo row")
    /\ cls' = verb_class(by_inf[g].inf)
    /\ g' = g + 1
    /\ UNCHANGED <<data, source_rows, by_inf, output, pc, k, yo_stem, base_stem, run, first>>

\* Lines 211-228: the group is converted; its stems are derived.
BeginGroup ==
    /\ pc = "verbs"
    /\ g <= Len(by_inf)
    /\ verb_class(by_inf[g].inf) \in {"ar", "er", "ir"}
    /\ ~MissingYo(by_inf[g].inf, by_inf[g].rows)
    /\ LET rows == by_inf[g].rows
           yo == FirstRowIndex(rows, P_yo)
       IN  /\ cls' = verb_class(by_inf[g].inf)
           /\ yo_stem' = IF yo # 0 THEN yo_stem_from_yo_form(rows[yo].forma) ELSE <<>>
           /\ base_stem' = derive_base_stem_from_present(rows, verb_class(by_inf[g].inf))
    /\ k' = 1
    /\ pc' = "rows"
    /\ UNCHANGED <<data, source_rows, by_inf, output, skipped, g, run, first>>

\* Lines 231-246, one iteration for a row with a known persona.
ConvertRow ==
    /\ pc = "rows"
    /\ k <= Len(by_inf[g].rows)
    /\ ~UnknownPersona(by_inf[g].rows[k])
    /\ output' = Append(output, NewRow(by_inf[g].rows[k], by_inf[g].inf, cls, yo_stem, base_stem))
    /\ k' = k + 1
    /\ UNCHANGED <<data, source_rows, by_inf, skipped, pc, g, cls, yo_stem, base_stem, run, first>>

\* Lines 235-237: a row with an unknown persona label is passed over.
DropRow ==
    /\ pc = "rows"
    /\ k <= Len(by_inf[g].rows)
    /\ UnknownPersona(by_inf[g].rows[k])
    /\ k' = k + 1
    /\ UNCHANGED <<data, source_rows, by_inf, output, skipped, pc, g, cls, yo_stem, base_stem, run, first>>

\* End of the loop over the group's rows.
EndGroup ==
    /\ pc = "rows"
    /\ k > Len(by_inf[g].rows)
    /\ g' = g + 1
    /\ pc' = "verbs"
    /\ UNCHANGED <<data, source_rows, by_inf, output, skipped, k, cls, yo_stem, base_stem, run, first>>

\* End of the loop over the groups; lines 248-255 write output and skipped out.
Finish ==
    /\ pc = "verbs"
    /\ g > Len(by_inf)
    /\ pc' = "done"
    /\ UNCHANGED <<data, source_rows, by_inf, output, skipped, g, k, cls, yo_stem, base_stem, run, first>>

\* The script is invoked again, on a second input file; what the first
\* invocation read and wrote is kept for comparison.
SecondRun ==
    /\ pc = "done"
    /\ run = 1
    /\ \E d \in SecondInputs(data) :
          /\ data' = d
          /\ first' = <<[data |-> data, output |-> output, skipped |-> skipped]>>
    /\ run' = 2
    /\ source_rows' = <<>>
    /\ by_inf' = <<>>
    /\ output' = <<>>
    /\ skipped' = <<>>
    /\ pc' = "start"
    /\ g' = 1
    /\ k' = 1
    /\ cls' = ""
    /\ yo_stem' = <<>>
    /\ base_stem' = None

Next ==
    \/ GroupSourceRows
    \/ SkipUnknownClass
    \/ SkipMissingYo
    \/ BeginGroup
    \/ ConvertRow
    \/ DropRow
    \/ EndGroup
    \/ Finish
    \/ SecondRun

Spec == Init /\ [][Next]_vars

(***************************************************************************)
(* Properties.  They read the input (data) and the results (output,        *)
(* skipped).  A form is a record's forma without surrounding whitespace,   *)
(* as every reader of the field takes it (lines 93, 103).                  *)
(***************************************************************************)
SrcRecs ==
    LET IsSrc(r) == r.tiempo = "presente"
    IN  SelectSeq(data, IsSrc)

\* The infinitives that occur in a source-tense input record.
InputInfs == {SrcRecs[i].infinitivo : i \in DOMAIN SrcRecs} \ {<<>>}

Canonical == {Personas[i] : i \in DOMAIN Personas}

In(inf) ==
    LET Of(r) == r.infinitivo = inf
    IN  SelectSeq(SrcRecs, Of)

\* The input records of inf whose persona label normalizes to a canonical persona.
CanonRows(inf) ==
    LET Ok(r) == norm_persona(r.persona_base) \in Canonical
    IN  SelectSeq(In(inf), Ok)

CanonIn(inf) == {norm_persona(CanonRows(inf)[i].persona_base) : i \in DOMAIN CanonRows(inf)}

Out(inf) ==
    LET Of(r) == r.infinitivo = inf
    IN  SelectSeq(output, Of)

PersonasOut(inf) == {Out(inf)[i].persona_base : i \in DOMAIN Out(inf)}

SkipCount(inf) == Cardinality({i \in DOMAIN skipped : skipped[i][1] = inf})

EndsIn(inf, suffix) == EndsWith(Lower(Strip(inf)), suffix)

NoClassSuffix(inf) == ~EndsIn(inf, <<"a","r">>) /\ ~EndsIn(inf, <<"e","r">>) /\ ~EndsIn(inf, <<"i","r">>)

Irregular(inf) == Lower(inf) \in {<<"s","e","r">>, <<"i","r">>, <<"d","a","r">>, <<"e","s","t","a","r">>, <<"s","a","b","e","r">>, <<"h","a","b","e","r">>}

HasRow(inf, p) == p \in CanonIn(inf)

\* The form of the first record of inf whose persona normalizes to p.
FormOf(inf, p) ==
    LET rows == CanonRows(inf)
        at == {i \in DOMAIN rows : norm_persona(rows[i].persona_base) = p}
    IN  Strip(rows[CHOOSE i \in at : \A j \in at : i <= j].forma)

Covered(inf) == \A p \in CanonIn(inf) : p \in PersonasOut(inf)

\* C1 as claimed: at the end of a run every input infinitive either has an
\* output record for each canonical persona among its input records or has
\* exactly one skip entry, and none has neither output records nor a skip entry.
C1_NoSilentLoss ==
    pc = "done" =>
        \A inf \in InputInfs :
            /\ Covered(inf) \/ SkipCount(inf) = 1
            /\ ~(Out(inf) = <<>> /\ SkipCount(inf) = 0)

\* C1 amended: the same, except that an irregular-table verb none of whose
\* records has a canonical persona ends with neither output nor skip entry;
\* every other infinitive has output records or exactly one skip entry.
C1_NoSilentLossButIrregular ==
    pc = "done" =>
        \A inf \in InputInfs :
            /\ Covered(inf) \/ SkipCount(inf) = 1
            /\ SkipCount(inf) <= 1
            /\ (Out(inf) = <<>> /\ SkipCount(inf) = 0)
                   <=> (Irregular(inf) /\ CanonIn(inf) = {})

C1_Witness ==
    /\ pc = "done"
    /\ Out(<<"p","e","d","i","r">>) # <<>> /\ Cardinality(CanonIn(<<"p","e","d","i","r">>)) >= 2 /\ SkipCount(<<"p","e","d","i","r">>) = 0
    /\ SkipCount(<<"x","y","z">>) = 1

\* C2 as claimed: a group whose infinitive is "xyzar" gets the skip entry
\* "unknown verb class" and no output record.
C2_XyzarSkipped ==
    (pc = "done" /\ <<"x","y","z","a","r">> \in InputInfs) =>
        /\ \E i \in DOMAIN skipped : skipped[i] = <<<<"x","y","z","a","r">>, "unknown verb class">>
        /\ Out(<<"x","y","z","a","r">>) = <<>>

\* C2 amended: a group whose infinitive ends in none of ar, er, ir (such as
\* "xyz") gets exactly one skip entry, with reason "unknown verb class", and
\* no output record, whatever records it holds.
C2_NoSuffixSkipped ==
    pc = "done" =>
        \A inf \in InputInfs :
            NoClassSuffix(inf) =>
                /\ SkipCount(inf) = 1
                /\ \E i \in DOMAIN skipped : skipped[i] = <<inf, "unknown verb class">>
                /\ Out(inf) = <<>>

C2_Witness ==
    /\ pc = "done"
    /\ <<"x","y","z">> \in InputInfs
    /\ skipped = << <<<<"x","y","z">>, "unknown verb class">> >>
    /\ output # <<>>

\* C3: every record of an irregular-table verb (infinitive compared ignoring
\* case) with a canonical persona is output with the table's form for that
\* persona, whatever the group's forms and with or without a 1sg record, and
\* the group is never skipped.
C3_IrregularOverrides ==
    pc = "done" =>
        \A inf \in InputInfs :
            Irregular(inf) =>
                /\ SkipCount(inf) = 0
                /\ Len(Out(inf)) = Len(CanonRows(inf))
                /\ \A i \in DOMAIN Out(inf) :
                      Out(inf)[i].forma =
                          IrregularForm(Lower(inf), norm_persona(CanonRows(inf)[i].persona_base))

C3_Witness ==
    /\ pc = "done"
    /\ ~HasRow(<<"S","e","r">>, P_yo)
    /\ \E i \in DOMAIN output :
          /\ output[i].infinitivo = <<"S","e","r">>
          /\ output[i].persona_base = P_vosotros
          /\ output[i].forma = <<"s","e","á","i","s">>

\* C4: for every group that is not skipped, the personas on its output
\* records are exactly the canonical personas its input labels normalize to.
C4_PersonaCoverage ==
    pc = "done" =>
        \A inf \in InputInfs :
            SkipCount(inf) = 0 => PersonasOut(inf) = CanonIn(inf)

C4_Witness ==
    /\ pc = "done"
    /\ PersonasOut(<<"h","a","b","l","a","r">>) = {P_yo, P_tu}
    /\ Len(In(<<"S","e","r">>)) > Len(Out(<<"S","e","r">>))
    /\ SkipCount(<<"S","e","r">>) = 0

\* The group being converted while pc = "rows".
CurInf == by_inf[g].inf

\* C5 as claimed: for an -ar verb outside the irregular table whose 1sg present
\* form ends in "o", the boot stem is that form without the final "o" and every
\* boot persona's form is the boot stem followed by the -ar ending.
C5_ArBootForms ==
    (/\ pc = "rows"
     /\ EndsIn(CurInf, <<"a","r">>)
     /\ ~Irregular(CurInf)
     /\ HasRow(CurInf, P_yo)
     /\ EndsWith(FormOf(CurInf, P_yo), <<"o">>)) =>
        LET stem == DropLast(FormOf(CurInf, P_yo), 1)
            outs == Out(CurInf)
        IN  /\ yo_stem = stem
            /\ \A i \in DOMAIN outs :
                  outs[i].persona_base \in BOOT =>
                      outs[i].forma = stem \o Lookup(ENDINGS_AR, outs[i].persona_base)

\* The stem as written before an ending in "e": c, g, z at the end of the stem
\* of a verb in -car, -gar, -zar become qu, gu, c.
SpelledBeforeE(inf, stem) ==
    IF EndsIn(inf, <<"c","a","r">>) /\ EndsWith(stem, <<"c">>) THEN DropLast(stem, 1) \o <<"q","u">>
    ELSE IF EndsIn(inf, <<"g","a","r">>) /\ EndsWith(stem, <<"g">>) THEN DropLast(stem, 1) \o <<"g","u">>
    ELSE IF EndsIn(inf, <<"z","a","r">>) /\ EndsWith(stem, <<"z">>) THEN DropLast(stem, 1) \o <<"c">>
    ELSE stem

\* C5 amended: for an -ar verb outside the irregular table whose 1sg present
\* form is longer than one character and ends in "o", the boot stem is that
\* form without the final "o", and every boot persona's form is the boot stem,
\* its final c, g or z rewritten to qu, gu or c when the infinitive ends in
\* car, gar or zar, followed by the -ar ending.
C5_ArBootFormsSpelled ==
    (/\ pc = "rows"
     /\ EndsIn(CurInf, <<"a","r">>)
     /\ ~Irregular(CurInf)
     /\ HasRow(CurInf, P_yo)
     /\ EndsWith(FormOf(CurInf, P_yo), <<"o">>)
     /\ Len(FormOf(CurInf, P_yo)) > 1) =>
        LET stem == DropLast(FormOf(CurInf, P_yo), 1)
            outs == Out(CurInf)
        IN  /\ yo_stem = stem
            /\ \A i \in DOMAIN outs :
                  outs[i].persona_base \in BOOT =>
                      outs[i].forma = SpelledBeforeE(CurInf, stem)
                                          \o Lookup(ENDINGS_AR, outs[i].persona_base)

C5_Witness ==
    /\ pc = "rows"
    /\ CurInf = <<"h","a","b","l","a","r">>
    /\ yo_stem = <<"h","a","b","l">>
    /\ \E i \in DOMAIN output : output[i].persona_base = P_yo /\ output[i].forma = <<"h","a","b","l","e">>
    /\ \E i \in DOMAIN output : output[i].persona_base = P_tu /\ output[i].forma = <<"h","a","b","l","e","s">>

\* C6 as claimed: the 1sg form of a verb in -car always has a stem ending in
\* "qu" before the ending "e".
C6_CarStemQu ==
    \A i \in DOMAIN output :
        (EndsIn(output[i].infinitivo, <<"c","a","r">>) /\ output[i].persona_base = P_yo) =>
            EndsWith(output[i].forma, <<"q","u","e">>)

\* C6 amended: no 1sg form of a verb in -car has a bare "c" before the
\* ending "e", and when the group's 1sg present form ends in "co" the 1sg
\* form's stem ends in "qu".
C6_CarNeverBareC ==
    \A i \in DOMAIN output :
        (EndsIn(output[i].infinitivo, <<"c","a","r">>) /\ output[i].persona_base = P_yo) =>
            /\ EndsWith(output[i].forma, <<"e">>)
            /\ ~EndsWith(output[i].forma, <<"c","e">>)
            /\ EndsWith(FormOf(output[i].infinitivo, P_yo), <<"c","o">>) =>
                   EndsWith(output[i].forma, <<"q","u","e">>)

C6_Witness ==
    \E i \in DOMAIN output :
        /\ output[i].infinitivo = <<"b","u","s","c","a","r">>
        /\ output[i].persona_base = P_yo
        /\ output[i].forma = <<"b","u","s","q","u","e">>

C8_OtherTensesIgnored ==
    (run = 2 /\ pc = "done") =>
        /\ output = first[1].output
        /\ skipped = first[1].skipped

C8_Witness ==
    /\ run = 2
    /\ pc = "done"
    /\ first[1].data # data
    /\ \E i \in DOMAIN first[1].data :
          first[1].data[i].tiempo # "presente" /\ first[1].data[i].infinitivo = <<"p","e","d","i","r">>
    /\ \E i \in DOMAIN skipped : skipped[i] = <<<<"p","e","d","i","r">>, "missing yo row">>
    /\ output # <<>>

\* C9: a record dropped for its persona label adds no skip entry and leaves
\* the other records of its group converted, in order; a group skipped as a
\* whole (no class suffix, or no 1sg record for a verb outside the irregular
\* table) adds exactly one skip entry and has no output record.
C9_DropSilentSkipReported ==
    pc = "done" =>
        \A inf \in InputInfs :
            LET ins == CanonRows(inf)
                outs == Out(inf)
            IN  IF NoClassSuffix(inf) \/ (~HasRow(inf, P_yo) /\ ~Irregular(inf))
                THEN SkipCount(inf) = 1 /\ outs = <<>>
                ELSE /\ SkipCount(inf) = 0
                     /\ Len(outs) = Len(ins)
                     /\ \A i \in DOMAIN outs :
                           /\ outs[i].persona_base = norm_persona(ins[i].persona_base)
                           /\ outs[i].tiempo = "subjuntivo presente"

C9_Witness ==
    /\ pc = "done"
    /\ Len(In(<<"S","e","r">>)) = 2
    /\ Len(Out(<<"S","e","r">>)) = 1
    /\ SkipCount(<<"S","e","r">>) = 0
    /\ Len(skipped) = 1

\* C10: for an -ir verb outside the irregular table whose boot stem (1sg form
\* without the final "o") equals its base stem (1pl form without "imos"), the
\* 1pl and 2pl forms are the unmodified base stem followed by "amos" and "áis".
C10_ShiftOnlyForBootChangers ==
    pc = "done" => \A inf \in InputInfs :
        (/\ EndsIn(inf, <<"i","r">>)
         /\ ~Irregular(inf)
         /\ HasRow(inf, P_yo)
         /\ HasRow(inf, P_nosotros)
         /\ Len(FormOf(inf, P_yo)) > 1
         /\ EndsWith(FormOf(inf, P_yo), <<"o">>)
         /\ EndsWith(FormOf(inf, P_nosotros), <<"i","m","o","s">>)
         /\ DropLast(FormOf(inf, P_yo), 1) = DropLast(FormOf(inf, P_nosotros), 4)) =>
            LET base == DropLast(FormOf(inf, P_nosotros), 4)
                outs == Out(inf)
            IN  \A i \in DOMAIN outs :
                    /\ outs[i].persona_base = P_nosotros => outs[i].forma = base \o <<"a","m","o","s">>
                    /\ outs[i].persona_base = P_vosotros => outs[i].forma = base \o <<"á","i","s">>

====
